---- MODULE Spec2Model ----
(***************************************************************************)
(* Model of youtube_transcript_app.py: a Streamlit script that, for a      *)
(* submitted YouTube URL, shows the first caption track, optionally        *)
(* translates it chunk by chunk, then downloads the audio with yt-dlp and  *)
(* runs Whisper on it.                                                     *)
(*                                                                         *)
(* Strings of the program are sequences of one-character strings, so that  *)
(* slicing, splitting and joining are computed as the code computes them.  *)
(* Python's None is the string "None"; an unbound name is "unbound".       *)
(***************************************************************************)
EXTENDS Integers, Sequences, FiniteSets, TLC

VARIABLES
    arg,                 \* input of the pure function under study
    ret,                 \* its result ("pending" before the call)
    cache,               \* st.cache_resource entry of load_whisper_model
    loads,               \* number of times whisper.load_model was attempted
    requests,            \* number of script runs started so far
    pc,                  \* position of the current script run
    video_url,           \* st.text_input value of the run
    translate,           \* st.checkbox value of the run
    whisper_model,       \* module-level name bound at line 52
    video_id,            \* result of extract_video_id
    transcript_list,     \* tracks returned by list_transcripts
    transcript_language, \* "unbound", "None" or a language code
    transcript_text,     \* "unbound", "None" or the formatted captions
    text_chunks,         \* chunks being translated
    translated_chunks,   \* translations collected so far
    temp_dir,            \* "absent", "exists" or "removed"
    audio_file,          \* TRUE when the expected mp3 exists in temp_dir
    downloaded,          \* "unbound" or what download_audio returned
    google_translation,  \* "unbound" or the joined translation
    calls,               \* collaborator invocations of the run, in order
    out                  \* messages and artifacts emitted by the run, in order

vars == <<arg, ret, cache, loads, requests, pc, video_url, translate,
          whisper_model, video_id, transcript_list, transcript_language,
          transcript_text, text_chunks, translated_chunks,
          google_translation, temp_dir, audio_file, downloaded, calls,
          out>>

(***************************************************************************)
(* Bounds                                                                  *)
(***************************************************************************)
MaxQueryLen == 4
MaxTextLen == 5
MaxChunkSize == 4

\* Characters a query string is built from; "+" decodes to a space.
QChars == {"v", "a", "=", "&", "+"}
\* Characters of the texts given to split_text.
TChars == {"a", "b"}

RECURSIVE SeqsUpTo(_, _)
SeqsUpTo(S, n) ==
    IF n = 0 THEN {<<>>}
    ELSE LET shorter == SeqsUpTo(S, n - 1)
         IN  shorter \cup {Append(s, c) : s \in {t \in shorter : Len(t) = n - 1}, c \in S}

(***************************************************************************)
(* split_text                                                              *)
(***************************************************************************)
\* Python's text[i:j] with 0 <= i <= j, 0-based and clipped at the end.
Slice(text, i, j) ==
    SubSeq(text, i + 1, IF j < Len(text) THEN j ELSE Len(text))

\* range(0, len, step) as a sequence
Range0(len, step) ==
    [k \in 1..((len + step - 1) \div step) |-> (k - 1) * step]

split_text_drop_tail(text, max_length) ==
    [k \in 1..(Len(text) \div max_length) |->
        Slice(text, (k - 1) * max_length, k * max_length)]

split_text_keep_empty(text, max_length) ==
    [k \in 1..(IF text = <<>> THEN 1 ELSE (Len(text) + max_length - 1) \div max_length) |->
        Slice(text, (k - 1) * max_length, k * max_length)]

split_text(text, max_length) ==
    LET starts == Range0(Len(text), max_length)
    IN  [k \in DOMAIN starts |-> Slice(text, starts[k], starts[k] + max_length)]

DefaultMaxLength == 1000

(***************************************************************************)
(* urlparse / parse_qs / extract_video_id                                  *)
(***************************************************************************)
WatchPath == <<"/", "w", "a", "t", "c", "h">>

\* A URL is given by the components urlparse splits it into.
Netlocs == {"www.youtube.com", "youtube.com", "youtu.be", "WWW.YouTube.com",
            "youtube.com:443", "m.youtube.com", "example.com", "[", ""}
Paths == {<<>>, <<"/">>, WatchPath, <<"/", "a", "b">>, <<"/", "w", "a", "t", "c", "h", "/">>}
Queries == SeqsUpTo(QChars, MaxQueryLen)

\* urlparse raises ValueError ("Invalid IPv6 URL") on a netloc with an
\* unmatched bracket.
InvalidNetloc(netloc) == netloc = "["

\* ParseResult.hostname: the netloc without port, lower-cased; None if empty.
hostname(netloc) ==
    CASE netloc = "" -> "None"
      [] netloc = "WWW.YouTube.com" -> "www.youtube.com"
      [] netloc = "youtube.com:443" -> "youtube.com"
      [] OTHER -> netloc

\* Index of the first occurrence of c in s, 0 if none.
RECURSIVE IndexFrom(_, _, _)
IndexFrom(s, c, i) ==
    IF i > Len(s) THEN 0
    ELSE IF s[i] = c THEN i ELSE IndexFrom(s, c, i + 1)

\* str.split(sep): the pieces between separators, empty pieces included.
RECURSIVE Split(_, _)
Split(s, sep) ==
    LET i == IndexFrom(s, sep, 1)
    IN  IF i = 0 THEN <<s>>
        ELSE <<SubSeq(s, 1, i - 1)>> \o Split(SubSeq(s, i + 1, Len(s)), sep)

\* unquote(x.replace('+', ' ')) on strings without percent escapes
unquote_plus(s) == [i \in 1..Len(s) |-> IF s[i] = "+" THEN " " ELSE s[i]]

\* parse_qsl with keep_blank_values=False, strict_parsing=False
RECURSIVE parse_pairs(_)
parse_pairs(fields) ==
    IF fields = <<>> THEN <<>>
    ELSE LET name_value == Head(fields)
             eq == IndexFrom(name_value, "=", 1)
             rest == parse_pairs(Tail(fields))
         IN  IF name_value = <<>> \/ eq = 0 THEN rest
             ELSE LET name == SubSeq(name_value, 1, eq - 1)
                      value == SubSeq(name_value, eq + 1, Len(name_value))
                  IN  IF Len(value) > 0
                      THEN <<<<unquote_plus(name), unquote_plus(value)>>>> \o rest
                      ELSE rest

parse_qsl(qs) == parse_pairs(Split(qs, "&"))

RECURSIVE ValuesOf(_, _)
ValuesOf(pairs, name) ==
    IF pairs = <<>> THEN <<>>
    ELSE (IF Head(pairs)[1] = name THEN <<Head(pairs)[2]>> ELSE <<>>)
         \o ValuesOf(Tail(pairs), name)

\* parse_qs: a dict from each name to the list of its values
parse_qs(qs) ==
    LET pairs == parse_qsl(qs)
    IN  [name \in {pairs[i][1] : i \in DOMAIN pairs} |-> ValuesOf(pairs, name)]

\* Results of a call: a returned string, None, or a raised KeyError.
Returned(v) == [tag |-> "value", v |-> v]
ReturnedNone == [tag |-> "None", v |-> <<>>]
Raised(e) == [tag |-> e, v |-> <<>>]

extract_video_id_any_host(url) ==
    IF InvalidNetloc(url.netloc) THEN Raised("ValueError")
    ELSE IF url.path = WatchPath /\ <<"v">> \in DOMAIN parse_qs(url.query)
    THEN Returned(parse_qs(url.query)[<<"v">>][1])
    ELSE IF url.path # <<>> THEN Returned(Tail(url.path)) ELSE ReturnedNone

extract_video_id(url) ==
    LET h == hostname(url.netloc)
    IN  IF InvalidNetloc(url.netloc) THEN Raised("ValueError")
        ELSE IF h \in {"www.youtube.com", "youtube.com"}
        THEN IF url.path = WatchPath
             THEN LET d == parse_qs(url.query)
                  IN  IF <<"v">> \in DOMAIN d THEN Returned(d[<<"v">>][1])
                      ELSE Raised("KeyError")
             ELSE ReturnedNone
        ELSE IF h = "youtu.be"
             THEN Returned(IF url.path = <<>> THEN <<>> ELSE Tail(url.path))
             ELSE ReturnedNone

(***************************************************************************)
(* Pure-function harnesses                                                 *)
(***************************************************************************)
Unbound == [tag |-> "unbound", v |-> <<>>]

Urls == [netloc : Netlocs, path : Paths, query : Queries]
EmptyUrl == [netloc |-> "", path |-> <<>>, query |-> <<>>]

IdleRun ==
    /\ cache = "unset" /\ loads = 0 /\ requests = 0 /\ pc = "idle"
    /\ video_url = EmptyUrl /\ translate = TRUE /\ whisper_model = "unbound"
    /\ video_id = Unbound /\ transcript_list = <<>>
    /\ transcript_language = "unbound" /\ transcript_text = Unbound
    /\ text_chunks = <<>> /\ translated_chunks = <<>>
    /\ google_translation = Unbound
    /\ temp_dir = "absent" /\ audio_file = FALSE /\ downloaded = "unbound"
    /\ calls = <<>> /\ out = <<>>

runVars == <<cache, loads, requests, pc, video_url, translate, whisper_model,
             video_id, transcript_list, transcript_language, transcript_text,
             text_chunks, translated_chunks, google_translation, temp_dir,
             audio_file, downloaded, calls, out>>

Pending == [tag |-> "pending", v |-> <<>>]

InitExtract == arg \in Urls /\ ret = Pending /\ IdleRun

CallExtract ==
    /\ ret.tag = "pending"
    /\ ret' = extract_video_id(arg)
    /\ UNCHANGED <<arg, runVars>>

SpecExtract == InitExtract /\ [][CallExtract]_vars

InitSplit ==
    /\ arg \in [text : SeqsUpTo(TChars, MaxTextLen), max_length : 1..MaxChunkSize]
    /\ ret = Pending
    /\ IdleRun

CallSplit ==
    /\ ret.tag = "pending"
    /\ ret' = Returned(split_text(arg.text, arg.max_length))
    /\ UNCHANGED <<arg, runVars>>

SpecSplit == InitSplit /\ [][CallSplit]_vars

(***************************************************************************)
(* Collaborator data of a script run                                       *)
(***************************************************************************)
MaxRequests == 2
MaxTracks == 2
MaxEntries == 2
LongLen == 995

\* URLs a user submits, as urlparse splits them.
RequestUrls ==
    { EmptyUrl,
      [netloc |-> "www.youtube.com", path |-> WatchPath, query |-> <<"v", "=", "a">>],
      [netloc |-> "www.youtube.com", path |-> WatchPath, query |-> <<"a", "=", "a">>],
      [netloc |-> "youtu.be", path |-> <<"/", "a", "b">>, query |-> <<>>],
      [netloc |-> "youtu.be", path |-> <<>>, query |-> <<>>],
      [netloc |-> "example.com", path |-> <<"/", "a", "b">>, query |-> <<>>],
      [netloc |-> "[", path |-> <<"/", "a", "b">>, query |-> <<>>] }

\* bool(video_url): the URL string is non-empty
Truthy(url) == url # EmptyUrl

\* Caption entries: start time in hundredths of a second, and text.
ShortEntry == [start |-> 0, text |-> <<"a">>]
LongEntry == [start |-> 1250, text |-> [i \in 1..LongLen |-> "x"]]
EntryLists == SeqsUpTo({ShortEntry, LongEntry}, MaxEntries)
Languages == {"en", "fr"}
Tracks == [language_code : Languages, entries : EntryLists]
\* Only the first track of a list is ever fetched (line 166 leaves the loop),
\* so the tracks behind it are drawn from a smaller set.
LaterTracks == [language_code : Languages, entries : {<<ShortEntry>>}]
TrackLists ==
    {<<>>} \cup {<<first>> \o later : first \in Tracks,
                                     later \in SeqsUpTo(LaterTracks, MaxTracks - 1)}

Digit(d) == <<"0", "1", "2", "3", "4", "5", "6", "7", "8", "9">>[d + 1]

RECURSIVE Decimal(_)
Decimal(n) == IF n < 10 THEN <<Digit(n)>> ELSE Append(Decimal(n \div 10), Digit(n % 10))

\* f"{start:.2f}"
Format2f(hundredths) ==
    Decimal(hundredths \div 100)
        \o <<".", Digit((hundredths % 100) \div 10), Digit(hundredths % 10)>>

\* f"{entry['start']:.2f} - {entry['text']}"
FormatEntry(entry) == Format2f(entry.start) \o <<" ", "-", " ">> \o entry.text

\* sep.join(parts)
RECURSIVE Join(_, _)
Join(sep, parts) ==
    IF parts = <<>> THEN <<>>
    ELSE IF Len(parts) = 1 THEN parts[1]
    ELSE parts[1] \o sep \o Join(sep, Tail(parts))

FormatTranscript(entries) ==
    Join(<<"\n">>, [k \in DOMAIN entries |-> FormatEntry(entries[k])])

\* what the translation collaborator returns for a chunk
Translated(chunk) == <<"t">>

\* A collaborator invocation: what was called, on which chunk (0 if none),
\* and how it ended.
Call(op, k, res) == [op |-> op, k |-> k, res |-> res]
Succeeded(call) == call.res \in {"ok", "exit0", "True"}

(***************************************************************************)
(* download_audio                                                          *)
(***************************************************************************)
\* An invocation of yt-dlp exits with status 0, exits non-zero, or cannot
\* be launched (Popen raises).
Invocations == {"exit0", "nonzero", "raise"}

download_audio_no_fallback(primary, alternate) ==
    LET first == <<Call("yt-dlp primary", 0, primary)>>
    IN  IF primary = "raise"
        THEN [ret |-> "False", calls |-> first, out |-> <<"err_downloading_audio">>]
        ELSE IF primary = "nonzero"
        THEN [ret |-> "False", calls |-> first, out |-> <<"err_could_not_download">>]
        ELSE [ret |-> "True", calls |-> first, out |-> <<>>]

\* Lines 66-121. Any exception inside the try block, a failed Popen
\* included, is reported at line 120 and turned into False.
download_audio(primary, alternate) ==
    LET first == <<Call("yt-dlp primary", 0, primary)>>
        second == <<Call("yt-dlp alternate", 0, alternate)>>
    IN  IF primary = "raise"
        THEN [ret |-> "False", calls |-> first, out |-> <<"err_downloading_audio">>]
        ELSE IF primary = "nonzero"
        THEN IF alternate = "raise"
             THEN [ret |-> "False", calls |-> first \o second,
                   out |-> <<"err_downloading_audio">>]
             ELSE IF alternate = "nonzero"
             THEN [ret |-> "False", calls |-> first \o second,
                   out |-> <<"err_could_not_download">>]
             ELSE [ret |-> "True", calls |-> first \o second, out |-> <<>>]
        ELSE [ret |-> "True", calls |-> first, out |-> <<>>]

(***************************************************************************)
(* The script run                                                          *)
(***************************************************************************)
Terminal == {"Done", "Aborted", "Fault", "NotProcessed"}

Init ==
    /\ arg = EmptyUrl
    /\ ret = Pending
    /\ IdleRun

pure == <<arg, ret>>

\* The user changes an input: Streamlit reruns the script from the top with
\* a fresh namespace and an empty page.
Submit ==
    /\ pc \in Terminal \cup {"idle"}
    /\ requests < MaxRequests
    /\ \E url \in RequestUrls, tr \in BOOLEAN :
          /\ video_url' = url
          /\ translate' = tr
    /\ requests' = requests + 1
    /\ pc' = "load"
    /\ whisper_model' = "unbound"
    /\ video_id' = Unbound
    /\ transcript_list' = <<>>
    /\ transcript_language' = "unbound"
    /\ transcript_text' = Unbound
    /\ text_chunks' = <<>>
    /\ translated_chunks' = <<>>
    /\ google_translation' = Unbound
    /\ temp_dir' = "absent"
    /\ audio_file' = FALSE
    /\ downloaded' = "unbound"
    /\ calls' = <<>>
    /\ out' = <<>>
    /\ UNCHANGED <<pure, cache, loads>>

\* What st.cache_resource stores for a value load_whisper_model returned
\* (lines 22-35): the value itself, the None of line 35 included.
CacheEntrySkipNone(result) == IF result = "None" THEN "unset" ELSE result

CacheEntry(result) == result

\* load_whisper_model behind st.cache_resource: the body runs only when the
\* cache holds no entry; its return value, None included, is cached.
LoadWhisperModel ==
    /\ pc = "load"
    /\ IF cache = "unset"
       THEN \E loaded \in BOOLEAN :
               LET result == IF loaded THEN "model" ELSE "None"
               IN  /\ cache' = CacheEntry(result)
                   /\ whisper_model' = result
                   /\ loads' = loads + 1
                   /\ out' = Append(out, IF loaded THEN "success_model_loaded"
                                         ELSE "err_loading_whisper")
       ELSE /\ whisper_model' = cache
            /\ UNCHANGED <<cache, loads, out>>
    /\ pc' = "entry"
    /\ UNCHANGED <<pure, requests, video_url, translate, video_id,
                   transcript_list, transcript_language, transcript_text,
                   text_chunks, translated_chunks, google_translation,
                   temp_dir, audio_file, downloaded, calls>>

\* Lines 211-212: the branch taken when video_id is None or empty.
InvalidUrlSilent == [pc |-> "Aborted", out |-> <<>>]

InvalidUrlBranch == [pc |-> "Aborted", out |-> <<"err_invalid_url">>]

\* Line 130: a run processes its URL only if the URL is non-empty and the
\* model was loaded.
ProcessedWithoutModel(url, model) == Truthy(url)

Processed(url, model) == Truthy(url) /\ model # "None"

\* Lines 130-133 and 211-212: the entry guard and the video id. An exception
\* raised by extract_video_id is outside every try block and ends the run.
Entry ==
    /\ pc = "entry"
    /\ IF ~Processed(video_url, whisper_model)
       THEN /\ pc' = "NotProcessed"
            /\ UNCHANGED <<video_id, out>>
       ELSE LET id == extract_video_id(video_url)
            IN  /\ video_id' = id
                /\ IF id.tag \notin {"value", "None"}
                   THEN /\ pc' = "Fault"
                        /\ UNCHANGED out
                   ELSE IF id.tag = "None" \/ id.v = <<>>
                   THEN /\ pc' = InvalidUrlBranch.pc
                        /\ out' = out \o InvalidUrlBranch.out
                   ELSE /\ pc' = "list_transcripts"
                        /\ UNCHANGED out
    /\ UNCHANGED <<pure, cache, loads, requests, video_url, translate,
                   whisper_model, transcript_list, transcript_language,
                   transcript_text, text_chunks, translated_chunks,
                   google_translation, temp_dir, audio_file, downloaded,
                   calls>>

\* Lines 168-171: the handler of the captions try block.
CaptionsExcept(call) ==
    /\ calls' = Append(calls, call)
    /\ out' = Append(out, "warn_no_transcript")
    /\ transcript_language' = "None"
    /\ transcript_text' = ReturnedNone
    /\ pc' = "audio"
    /\ UNCHANGED <<text_chunks, translated_chunks, google_translation>>

\* Line 137: YouTubeTranscriptApi.list_transcripts raises or returns the
\* tracks; line 138 enters the loop when there is a first track.
ListTranscripts ==
    /\ pc = "list_transcripts"
    /\ \/ /\ CaptionsExcept(Call("list_transcripts", 0, "raise"))
          /\ UNCHANGED transcript_list
       \/ \E tracks \in TrackLists :
             /\ transcript_list' = tracks
             /\ calls' = Append(calls, Call("list_transcripts", 0, "ok"))
             /\ pc' = IF tracks = <<>> THEN "audio" ELSE "fetch"
             /\ UNCHANGED <<out, transcript_language, transcript_text,
                            text_chunks, translated_chunks, google_translation>>
    /\ UNCHANGED <<pure, cache, loads, requests, video_url, translate,
                   whisper_model, video_id, temp_dir, audio_file, downloaded>>

\* Line 149: the captions are translated when asked for and not English.
NeedsTranslationAnyLanguage(tr, language) == tr

NeedsTranslation(tr, language) == tr /\ language # "en"

\* Lines 164-165: a failed chunk ends the translation; only the error is
\* shown, google_translation is never assigned and the run goes on.
TranslationExceptPartial(partial) ==
    [out |-> <<"google_translation", "err_google_translation">>,
     text |-> Returned(Join(<<" ">>, partial)), stop |-> FALSE]

TranslationExceptStop(partial) ==
    [out |-> <<"err_google_translation">>, text |-> Unbound, stop |-> TRUE]

TranslationExcept(partial) ==
    [out |-> <<"err_google_translation">>, text |-> Unbound, stop |-> FALSE]

\* The iteration of the loop of line 138 that is running or about to run:
\* one more than the number of tracks fetched so far.
TrackIndex ==
    1 + Cardinality({i \in DOMAIN calls : calls[i].op = "fetch"})

\* Line 166: the break at the end of the loop body leaves the loop after the
\* track at position k, whatever happened to its translation.
AfterTrackNoBreak(tracks, k) == IF k < Len(tracks) THEN "fetch" ELSE "audio"

AfterTrack(tracks, k) == "audio"

\* Lines 139-153 (and 160-162, 166 when there is nothing to translate): the
\* first track is fetched and shown; translation starts if asked for.
Fetch ==
    /\ pc = "fetch"
    /\ \/ /\ CaptionsExcept(Call("fetch", 0, "raise"))
       \/ LET transcript == transcript_list[TrackIndex]
              text == FormatTranscript(transcript.entries)
              chunks == split_text(text, DefaultMaxLength)
          IN  /\ calls' = Append(calls, Call("fetch", 0, "ok"))
              /\ transcript_language' = transcript.language_code
              /\ transcript_text' = Returned(text)
              /\ IF NeedsTranslation(translate, transcript.language_code)
                 THEN /\ text_chunks' = chunks
                      /\ translated_chunks' = <<>>
                      /\ IF chunks = <<>>
                         THEN /\ google_translation' = Returned(Join(<<" ">>, <<>>))
                              /\ out' = out \o <<"original_transcript", "google_translation">>
                              /\ pc' = AfterTrack(transcript_list, TrackIndex)
                         ELSE /\ out' = Append(out, "original_transcript")
                              /\ pc' = "translate"
                              /\ UNCHANGED google_translation
                 ELSE /\ out' = Append(out, "original_transcript")
                      /\ pc' = AfterTrack(transcript_list, TrackIndex)
                      /\ UNCHANGED <<text_chunks, translated_chunks, google_translation>>
    /\ UNCHANGED <<pure, cache, loads, requests, video_url, translate,
                   whisper_model, video_id, transcript_list, temp_dir, audio_file,
                   downloaded>>

\* Lines 156-166: one iteration of the translation loop; after the last
\* chunk the translations are joined and shown.
TranslateChunk ==
    /\ pc = "translate"
    /\ LET k == Len(translated_chunks) + 1
       IN  \/ /\ calls' = Append(calls, Call("translate", k, "ok"))
              /\ translated_chunks' = Append(translated_chunks, Translated(text_chunks[k]))
              /\ IF k = Len(text_chunks)
                 THEN /\ google_translation' = Returned(Join(<<" ">>, translated_chunks'))
                      /\ out' = Append(out, "google_translation")
                      /\ pc' = AfterTrack(transcript_list, TrackIndex - 1)
                 ELSE UNCHANGED <<google_translation, out, pc>>
           \/ /\ calls' = Append(calls, Call("translate", k, "raise"))
              /\ out' = out \o TranslationExcept(translated_chunks).out
              /\ google_translation' = TranslationExcept(translated_chunks).text
              /\ pc' = IF TranslationExcept(translated_chunks).stop THEN "Aborted"
                       ELSE AfterTrack(transcript_list, TrackIndex - 1)
              /\ UNCHANGED translated_chunks
    /\ UNCHANGED <<pure, cache, loads, requests, video_url, translate,
                   whisper_model, video_id, transcript_list,
                   transcript_language, transcript_text, text_chunks,
                   temp_dir, audio_file, downloaded>>

\* Leaving the block of "with tempfile.TemporaryDirectory()" removes the
\* directory and what it holds, however the block is left.
WithExitLeak(dir) == dir

WithExit(dir) == IF dir = "exists" THEN "removed" ELSE dir

\* Lines 174-179: the Whisper stage is entered when translate is checked;
\* creating the temporary directory may fail with OSError, which line 207
\* catches.
AudioStage ==
    /\ pc = "audio"
    /\ \/ /\ ~translate
          /\ pc' = "Done"
          /\ UNCHANGED <<temp_dir, out, calls>>
       \/ /\ translate
          /\ calls' = Append(calls, Call("mkdtemp", 0, "ok"))
          /\ temp_dir' = "exists"
          /\ pc' = "download"
          /\ UNCHANGED out
       \/ /\ translate
          /\ calls' = Append(calls, Call("mkdtemp", 0, "raise"))
          /\ out' = Append(out, "err_processing")
          /\ pc' = "Aborted"
          /\ UNCHANGED temp_dir
    /\ UNCHANGED <<pure, cache, loads, requests, video_url, translate,
                   whisper_model, video_id, transcript_list,
                   transcript_language, transcript_text, text_chunks,
                   translated_chunks, google_translation, audio_file,
                   downloaded>>

\* Lines 181 and 185: transcription goes ahead only if download_audio
\* returned True and the expected file exists.
AudioReadyNoFileCheck(ok, exists) == ok

AudioReady(ok, exists) == ok /\ exists

\* Lines 181-187: download_audio, then the two guards; st.stop() ends the
\* script through the with block (StopException is not an Exception, so
\* line 207 does not catch it).
DownloadAudio ==
    /\ pc = "download"
    /\ \E primary \in Invocations, alternate \in Invocations, written \in BOOLEAN :
          LET r == download_audio(primary, alternate)
              exists == written /\ primary # "raise"
              checked == IF r.ret = "True"
                         THEN <<Call("os.path.exists", 0,
                                     IF exists THEN "True" ELSE "False")>>
                         ELSE <<>>
          IN  /\ downloaded' = r.ret
              /\ calls' = calls \o r.calls \o checked
              /\ IF AudioReady(r.ret = "True", exists)
                 THEN /\ out' = out \o r.out
                      /\ audio_file' = exists
                      /\ pc' = "transcribe"
                      /\ UNCHANGED temp_dir
                 ELSE /\ out' = out \o r.out \o
                                <<IF r.ret # "True" THEN "err_failed_download"
                                  ELSE "err_file_missing">>
                      /\ audio_file' = FALSE
                      /\ temp_dir' = WithExit(temp_dir)
                      /\ pc' = "Aborted"
    /\ UNCHANGED <<pure, cache, loads, requests, video_url, translate,
                   whisper_model, video_id, transcript_list,
                   transcript_language, transcript_text, text_chunks,
                   translated_chunks, google_translation>>

\* Lines 190-205: whisper_model.transcribe and the display of its result.
\* Reading transcript_language at line 200 raises NameError when no line
\* assigned it; the handler at line 204 catches that as well.
Transcribe ==
    /\ pc = "transcribe"
    /\ \/ /\ calls' = Append(calls, Call("transcribe", 0, "raise"))
          /\ out' = Append(out, "err_whisper")
          /\ pc' = "Aborted"
       \/ /\ calls' = Append(calls, Call("transcribe", 0, "ok"))
          /\ IF transcript_language = "unbound"
             THEN /\ out' = out \o <<"whisper_header", "err_whisper">>
                  /\ pc' = "Aborted"
             ELSE /\ out' = out \o <<"whisper_header">>
                              \o (IF transcript_language = "None"
                                  THEN <<"info_whisper_language">> ELSE <<>>)
                              \o <<"whisper_text">>
                  /\ pc' = "Done"
    /\ temp_dir' = WithExit(temp_dir)
    /\ audio_file' = FALSE
    /\ UNCHANGED <<pure, cache, loads, requests, video_url, translate,
                   whisper_model, video_id, transcript_list,
                   transcript_language, transcript_text, text_chunks,
                   translated_chunks, google_translation, downloaded>>

Next ==
    \/ Submit
    \/ LoadWhisperModel
    \/ Entry
    \/ ListTranscripts
    \/ Fetch
    \/ TranslateChunk
    \/ AudioStage
    \/ DownloadAudio
    \/ Transcribe

Spec == Init /\ [][Next]_vars

(***************************************************************************)
(* Properties of extract_video_id                                          *)
(***************************************************************************)
YouTubeHosts == {"www.youtube.com", "youtube.com"}

\* Positions where a field "v=..." of the query starts: at the beginning of
\* the query or right after a "&".
VParams(q) ==
    {i \in 1..(Len(q) - 1) :
        q[i] = "v" /\ q[i + 1] = "=" /\ (i = 1 \/ q[i - 1] = "&")}

\* The decoded value of the field starting at position i: the characters
\* after "v=" up to the next "&" or the end of the query.
VValue(q, i) ==
    LET stops == {j \in (i + 2)..Len(q) : q[j] = "&"}
        last == IF stops = {} THEN Len(q)
                ELSE (CHOOSE j \in stops : \A m \in stops : j <= m) - 1
    IN  [k \in 1..(last - i - 1) |-> IF q[i + 1 + k] = "+" THEN " " ELSE q[i + 1 + k]]

Least(S) == CHOOSE i \in S : \A j \in S : i <= j

NonBlankVParams(q) == {i \in VParams(q) : VValue(q, i) # <<>>}

ShortLinkOk ==
    hostname(arg.netloc) = "youtu.be" =>
        /\ ret.tag = "value"
        /\ arg.path # <<>> => <<arg.path[1]>> \o ret.v = arg.path
        /\ arg.path = <<>> => ret.v = <<>>

OtherShapeOk ==
    (\/ hostname(arg.netloc) \notin YouTubeHosts \cup {"youtu.be"}
     \/ hostname(arg.netloc) \in YouTubeHosts /\ arg.path # WatchPath)
        => ret = ReturnedNone

RECURSIVE Concat(_)
Concat(chunks) ==
    IF chunks = <<>> THEN <<>> ELSE Head(chunks) \o Concat(Tail(chunks))

\* C6: the chunks of split_text(s, n) concatenate to s, every chunk but the
\* last has length n, and the last chunk has length between 1 and n.
C6_SplitText ==
    ret.tag = "value" =>
        LET chunks == ret.v
            n == arg.max_length
        IN  /\ Concat(chunks) = arg.text
            /\ \A k \in 1..(Len(chunks) - 1) : Len(chunks[k]) = n
            /\ chunks # <<>> =>
                   /\ Len(chunks[Len(chunks)]) >= 1
                   /\ Len(chunks[Len(chunks)]) <= n

C6_Witness ==
    /\ ret.tag = "value"
    /\ Len(ret.v) = 3
    /\ Len(ret.v[3]) = 1
    /\ arg.max_length = 2

(***************************************************************************)
(* Properties of a script run                                              *)
(***************************************************************************)
Emitted(message) == \E i \in DOMAIN out : out[i] = message

CallsOf(ops) == SelectSeq(calls, LAMBDA c : c.op \in ops)

Downloads == CallsOf({"yt-dlp primary", "yt-dlp alternate"})
Translations == CallsOf({"translate"})

TranscribeSucceeded == \E i \in DOMAIN calls : calls[i] = Call("transcribe", 0, "ok")
TranscribeInvoked == \E i \in DOMAIN calls : calls[i].op = "transcribe"
CaptionsFound == \E i \in DOMAIN calls : calls[i] = Call("fetch", 0, "ok")

\* C2: a run whose transcribe call succeeded ends in Done with the Whisper
\* text emitted, whatever the captions outcome was.
C2_TranscribedEndsDone ==
    (pc \in Terminal /\ TranscribeSucceeded) =>
        (pc = "Done" /\ Emitted("whisper_text"))

\* C3: once a run has finished, the temporary directory it created no
\* longer exists, on every exit path.
C3_TempDirReleased ==
    pc \in Terminal =>
        /\ temp_dir # "exists"
        /\ audio_file = FALSE
        /\ (\E i \in DOMAIN calls : calls[i] = Call("mkdtemp", 0, "ok"))
               => temp_dir = "removed"

C3_Witness ==
    /\ pc = "Aborted"
    /\ temp_dir = "removed"
    /\ out # <<>>
    /\ out[Len(out)] = "err_file_missing"

\* C4: when download_audio reports failure, or reports success while the
\* expected file is absent, the run is Aborted with an error as its last
\* message, transcribe is never invoked and no Whisper text is emitted; a
\* transcribe call is always preceded by a successful file check.
C4_NoTranscribeWithoutAudio ==
    /\ (pc # "download" /\
          (\/ downloaded = "False"
           \/ \E i \in DOMAIN calls : calls[i] = Call("os.path.exists", 0, "False")))
          => /\ pc = "Aborted"
             /\ out # <<>>
             /\ out[Len(out)] \in {"err_failed_download", "err_file_missing"}
             /\ ~TranscribeInvoked
             /\ ~Emitted("whisper_text")
             /\ ~Emitted("whisper_header")
    /\ (pc = "transcribe" \/ TranscribeInvoked)
          => /\ downloaded = "True"
             /\ \E i \in DOMAIN calls : calls[i] = Call("os.path.exists", 0, "True")
    /\ pc = "transcribe" => audio_file

C4_Witness ==
    /\ pc = "Aborted"
    /\ downloaded = "True"
    /\ calls[Len(calls)] = Call("os.path.exists", 0, "False")
    /\ Emitted("err_file_missing")

\* C5: download_audio invokes the primary command once, the alternate one
\* exactly when the primary exits non-zero, and nothing else; it returns
\* True when the last invocation exits with 0 and False when both exit
\* non-zero or a launch raises; no exception leaves it.
C5_DownloadTwoTier ==
    downloaded # "unbound" =>
        LET d == Downloads
        IN  /\ Len(d) \in {1, 2}
            /\ d[1].op = "yt-dlp primary"
            /\ Len(d) = 2 <=> d[1].res = "nonzero"
            /\ Len(d) = 2 => d[2].op = "yt-dlp alternate"
            /\ downloaded = "True" <=>
                  (\/ d[1].res = "exit0"
                   \/ d[1].res = "nonzero" /\ d[2].res = "exit0")
            /\ downloaded = "False" <=>
                  (\/ d[1].res = "raise"
                   \/ d[1].res = "nonzero" /\ d[2].res \in {"nonzero", "raise"})
            /\ pc # "Fault"
            /\ ~Emitted("err_processing")

C5_Witness ==
    /\ downloaded = "True"
    /\ Downloads = <<Call("yt-dlp primary", 0, "nonzero"),
                     Call("yt-dlp alternate", 0, "exit0")>>
    /\ pc = "transcribe"

\* C7: chunks are submitted one at a time in order; when the collaborator
\* fails on chunk k, an error is shown, no later chunk is submitted, chunk k
\* is not submitted again, and no translated text is emitted.
C7_ChunkFailureStops ==
    LET t == Translations
    IN  /\ \A i \in DOMAIN t : t[i].k = i
        /\ Len(t) <= Len(text_chunks)
        /\ \A i \in DOMAIN t : t[i].res = "raise" =>
              /\ i = Len(t)
              /\ pc # "translate"
              /\ Emitted("err_google_translation")
              /\ ~Emitted("google_translation")
              /\ google_translation = Unbound

C7_Witness ==
    /\ Len(text_chunks) = 3
    /\ Translations = <<Call("translate", 1, "ok"), Call("translate", 2, "raise")>>
    /\ pc = "Done"

\* A URL of an unknown host, or of a YouTube host with a path other than
\* /watch: the shapes for which extract_video_id is to return None.
NotFoundShape(url) ==
    /\ ~InvalidNetloc(url.netloc)
    /\ \/ hostname(url.netloc) \notin YouTubeHosts \cup {"youtu.be"}
       \/ hostname(url.netloc) \in YouTubeHosts /\ url.path # WatchPath

InvalidUrlOutcome ==
    /\ pc = "Aborted"
    /\ Emitted("err_invalid_url")
    /\ calls = <<>>

\* C8 as stated: every run for a non-empty URL of a NotFound shape ends
\* Aborted with the invalid-URL error and without any collaborator call.
C8_AsStated ==
    (pc \in Terminal /\ Truthy(video_url) /\ NotFoundShape(video_url))
        => InvalidUrlOutcome

\* C8 amended: every run with the model available (whisper_model is not
\* None) for a non-empty URL of a NotFound shape ends Aborted with the
\* invalid-URL error and without any collaborator call, whatever translate.
C8_InvalidUrl ==
    (pc \in Terminal /\ Truthy(video_url) /\ NotFoundShape(video_url)
       /\ whisper_model = "model")
        => InvalidUrlOutcome

C8_Witness ==
    /\ pc = "Aborted"
    /\ video_url.netloc = "example.com"
    /\ ~translate
    /\ whisper_model = "model"
    /\ out[Len(out)] = "err_invalid_url"

\* C9: a watch URL of a YouTube host without a v parameter yields None and
\* its run ends Aborted with the invalid-URL error, not as a fault.
C9_MissingVIsInvalidUrl ==
    (pc \in Terminal /\ whisper_model = "model"
       /\ hostname(video_url.netloc) \in YouTubeHosts
       /\ video_url.path = WatchPath
       /\ VParams(video_url.query) = {})
        => /\ video_id = ReturnedNone
           /\ pc = "Aborted"
           /\ Emitted("err_invalid_url")

EnglishCaptionsOk ==
    (CaptionsFound /\ transcript_language = "en" /\ translate) =>
        /\ Emitted("original_transcript")
        /\ Translations = <<>>
        /\ pc # "Done" \/ Emitted("whisper_text")
        /\ (pc \in Terminal /\ TranscribeSucceeded) => Emitted("whisper_text")
        /\ pc \in Terminal => pc \in {"Done", "Aborted"}

\* C10 as stated: once captions were found and the translation stage is
\* over, the translation collaborator was invoked iff translate is set and
\* the track's language is not en; English captions with translate set give
\* the original transcript, no translation call and a Whisper result.
C10_AsStated ==
    /\ (CaptionsFound /\ pc \notin {"translate", "fetch"}) =>
          (Translations # <<>> <=> (translate /\ transcript_language # "en"))
    /\ EnglishCaptionsOk

\* C10 amended: once captions were found and the translation stage is
\* over, the translation collaborator was invoked iff translate is set, the
\* track's language is not en and the transcript text is not empty; English
\* captions with translate set give the original transcript, no translation
\* call and, when download and transcription succeed, the Whisper text.
C10_TranslateIffNeeded ==
    /\ (CaptionsFound /\ pc \notin {"translate", "fetch"}) =>
          (Translations # <<>> <=>
              (translate /\ transcript_language # "en" /\ transcript_text.v # <<>>))
    /\ EnglishCaptionsOk

C10_Witness ==
    /\ pc = "Done"
    /\ CaptionsFound
    /\ transcript_language = "en"
    /\ translate
    /\ out = <<"original_transcript", "whisper_header", "whisper_text">>
    /\ Translations = <<>>

\* C11: over any sequence of runs the model load is attempted at most once;
\* every run uses the cached outcome, a loaded model or None, and with None
\* cached every run ends at the entry guard without any collaborator call.
C11_LoadAtMostOnce ==
    /\ loads <= 1
    /\ loads = 1 <=> cache # "unset"
    /\ pc \notin {"idle", "load"} => (cache # "unset" /\ whisper_model = cache)
    /\ (cache = "None" /\ pc \notin {"idle", "load", "entry"})
          => (pc = "NotProcessed" /\ calls = <<>>)

C11_Witness ==
    /\ requests = 2
    /\ loads = 1
    /\ cache = "None"
    /\ Truthy(video_url)
    /\ pc = "NotProcessed"

\* The messages of the run itself, without those of the model load.
RunOut ==
    SelectSeq(out, LAMBDA m : m \notin {"success_model_loaded", "err_loading_whisper"})

CaptionsRaised ==
    \E i \in DOMAIN calls :
        calls[i] \in {Call("list_transcripts", 0, "raise"), Call("fetch", 0, "raise")}

NoTracks ==
    /\ \E i \in DOMAIN calls : calls[i] = Call("list_transcripts", 0, "ok")
    /\ transcript_list = <<>>

BothDownloadsFailed ==
    Downloads = <<Call("yt-dlp primary", 0, "nonzero"),
                  Call("yt-dlp alternate", 0, "nonzero")>>

CaptionsAbsentOutcome ==
    /\ RunOut # <<>>
    /\ RunOut[1] = "warn_no_transcript"
    /\ ~Emitted("original_transcript")
    /\ Translations = <<>>
    /\ translate => (pc # "Done" \/ TranscribeInvoked)
    /\ BothDownloadsFailed =>
          /\ RunOut = <<"warn_no_transcript", "err_could_not_download",
                        "err_failed_download">>
          /\ pc = "Aborted"
          /\ temp_dir = "removed"

\* C12: every captions failure (the call raises while listing or fetching,
\* or no track is returned) gives the CaptionsUnavailable warning, no
\* original transcript, and the audio stage when translate is set; if both
\* downloads then fail, the messages are the warning followed by the
\* acquisition errors, and no Whisper text.
C12_CaptionsFailuresUniform ==
    ((CaptionsRaised \/ NoTracks) /\ pc \notin {"list_transcripts", "fetch"})
        => CaptionsAbsentOutcome

\* The stage a collaborator call belongs to.
StageOf(op) ==
    CASE op \in {"list_transcripts", "fetch"} -> 1
      [] op = "translate" -> 2
      [] op \in {"mkdtemp", "yt-dlp primary", "yt-dlp alternate", "os.path.exists"} -> 3
      [] op = "transcribe" -> 4

ArtifactRank(message) ==
    CASE message = "original_transcript" -> 1
      [] message = "google_translation" -> 2
      [] message = "whisper_text" -> 3

Artifacts ==
    SelectSeq(out, LAMBDA m : m \in {"original_transcript", "google_translation",
                                     "whisper_text"})

AllCollaboratorsSucceeded == \A i \in DOMAIN calls : Succeeded(calls[i])

AllCollaboratorsSucceededBut(op) ==
    \A i \in DOMAIN calls : calls[i].op # op => Succeeded(calls[i])

\* C13: within a run the calls of caption fetch, translation, download and
\* transcription follow each other in that order, the original transcript is
\* emitted before any Google translation and that before any Whisper text;
\* for captions not in en with translate set and every collaborator
\* succeeding, exactly these three artifacts are emitted, in that order.
C13_StageOrder ==
    /\ \A i, j \in DOMAIN calls :
          i < j => StageOf(calls[i].op) <= StageOf(calls[j].op)
    /\ \A i, j \in DOMAIN Artifacts :
          i < j => ArtifactRank(Artifacts[i]) < ArtifactRank(Artifacts[j])
    /\ (pc \in Terminal /\ CaptionsFound /\ transcript_language # "en"
          /\ translate /\ AllCollaboratorsSucceeded)
          => (pc = "Done" /\ Artifacts = <<"original_transcript",
                                           "google_translation", "whisper_text">>)

C13_Witness ==
    /\ pc = "Done"
    /\ transcript_language = "fr"
    /\ translate
    /\ Len(Translations) = 2
    /\ AllCollaboratorsSucceeded
    /\ Artifacts = <<"original_transcript", "google_translation", "whisper_text">>

\* C14: translating an empty transcript text makes no call to the
\* translation collaborator: split_text gives no chunks and the joined
\* result, which is still shown, is the empty string.
C14_EmptyTextNoCall ==
    (CaptionsFound /\ translate /\ transcript_language # "en"
       /\ transcript_text.v = <<>>)
        => /\ text_chunks = <<>>
           /\ Translations = <<>>
           /\ pc # "translate"
           /\ google_translation = Returned(<<>>)
           /\ Emitted("google_translation")
           /\ ~Emitted("err_google_translation")

C14_Witness ==
    /\ CaptionsFound
    /\ translate
    /\ transcript_language = "fr"
    /\ transcript_text = Returned(<<>>)
    /\ google_translation = Returned(<<>>)
    /\ calls = <<Call("list_transcripts", 0, "ok"), Call("fetch", 0, "ok")>>
    /\ pc = "audio"

\* C15: with the model unavailable (None) a submitted URL is not processed:
\* no video id is extracted, no collaborator is called and the run emits
\* nothing of its own, neither the invalid-URL error nor a transcript.
C15_ModelUnavailableSkips ==
    (whisper_model = "None" /\ pc \notin {"idle", "load", "entry"})
        => /\ pc = "NotProcessed"
           /\ video_id = Unbound
           /\ calls = <<>>
           /\ RunOut = <<>>
           /\ temp_dir = "absent"

C15_Witness ==
    /\ whisper_model = "None"
    /\ pc = "NotProcessed"
    /\ video_url.netloc = "example.com"
    /\ requests = 2
    /\ out = <<>>

TranslationFailed == \E i \in DOMAIN calls : calls[i].op = "translate" /\ calls[i].res = "raise"

Fetches == CallsOf({"fetch"})

\* C16: after the translation collaborator fails on a chunk the original
\* transcript stays emitted, no further track is fetched, and the run goes
\* on to the download and the transcription as after a successful
\* translation: it ends only there, and with the Whisper text when they
\* succeed.
C16_TranslationFailureNotTerminal ==
    TranslationFailed =>
        /\ translate
        /\ Emitted("original_transcript")
        /\ Len(Fetches) = 1
        /\ pc \in {"audio", "download", "transcribe", "Done", "Aborted"}
        /\ pc = "Aborted" =>
              out[Len(out)] \in {"err_processing", "err_failed_download",
                                 "err_file_missing", "err_whisper"}
        /\ pc = "Done" =>
              RunOut = <<"original_transcript", "err_google_translation",
                         "whisper_header", "whisper_text">>
        /\ (pc \in Terminal /\ AllCollaboratorsSucceededBut("translate"))
              => pc = "Done"

C16_Witness ==
    /\ TranslationFailed
    /\ Len(transcript_list) = 2
    /\ Len(Translations) = 1
    /\ pc = "Done"
    /\ Emitted("whisper_text")

====
